---- MODULE Spec2Model ----
(***************************************************************************)
(* A model of CoachScraper (src/CoachScraper.py): the retrying fetcher     *)
(* fetch_html, the selector-driven record extractor scrape_generic_table,  *)
(* the site parser parse_site, and the thread-pool orchestrator scrape_all *)
(* with the export save_csv.                                               *)
(*                                                                         *)
(* Three specifications share the module:                                  *)
(*   SpecFetch    one direct call of fetch_html(url, max_retries)          *)
(*   SpecExtract  one direct call of scrape_generic_table(soup, config)    *)
(*   Spec         a whole run: __init__, scrape_all, save_csv              *)
(***************************************************************************)
EXTENDS Integers, Sequences, FiniteSets, TLC

VARIABLES
    call,       \* the activation record of a direct fetch_html call
    trace,      \* history of that call: the requests made and the sleeps taken
    ex,         \* the activation record of a direct scrape_generic_table call
    sites,      \* self.sites: school -> site configuration, schools numbered in
                \* the iteration order of the mapping
    max_workers,\* self.max_workers
    task,       \* per school, the future and the parse_site activation behind it
    worker,     \* per pool thread, the school whose parse_site it runs (0: idle)
    orch,       \* the activation record of scrape_all followed by save_csv
    results,    \* self.results
    log,        \* what scrape_all and save_csv printed, in order
    file        \* the output file

(***************************************************************************)
(* Bounds of the model.                                                    *)
(***************************************************************************)
MaxRetriesBound == 3

MaxRows == 2

MaxContainers == 2

MaxWrapperIndex == 2

NumSites == 3

MaxWorkers == 2

MaxBlocks == 2

(***************************************************************************)
(* Program constants.                                                      *)
(***************************************************************************)
\* fetch_html's default max_retries, which parse_site relies on.
DefaultMaxRetries == 3

(***************************************************************************)
(* Python values.                                                          *)
(***************************************************************************)
\* Python's None where a string is expected (config.get("url") of a missing key).
None == "<None>"

\* `not url`: None and the empty string are falsy.
Falsy(s) == s = None \/ s = ""

(***************************************************************************)
(* The network boundary: what one requests.get(url, timeout=10) can do.    *)
(* Either the transport fails (exc names the exception class raised by     *)
(* requests.get) or a response with a status and a text comes back.        *)
(***************************************************************************)
NoExc == "none"

Statuses == {200, 400, 404, 499, 500, 503}

TransportExceptions == {"Timeout", "ConnectionError"}

Bodies == {"", "<html>"}

Responses ==
    [status : Statuses, exc : {NoExc}, text : Bodies]
        \cup [status : {0}, exc : TransportExceptions, text : {""}]

\* resp.raise_for_status(): HTTPError for 4xx and 5xx, nothing otherwise.
RaiseForStatus(status) ==
    IF 400 <= status /\ status < 600 THEN "HTTPError" ELSE NoExc

\* The class hierarchy of requests.exceptions that the except clauses test.
IsHTTPError(e) == e = "HTTPError"

IsRequestExceptionOnlyTimeout(e) == e \in {"HTTPError", "Timeout"}

IsRequestException(e) == e \in {"HTTPError", "Timeout", "ConnectionError"}

\* `400 <= resp.status_code < 500`
IsClientErrorNever(status) == FALSE

IsClientError(status) == 400 <= status /\ status < 500

(***************************************************************************)
(* fetch_html(url, max_retries, delay_seconds), one step at a time.  The   *)
(* activation record: pc is "entry" (called), "request" (at the top of a   *)
(* loop iteration, about to call requests.get), "sleeping" (inside         *)
(* time.sleep), "returned" or "raised"; attempt is the loop variable;      *)
(* requests and sleeps count the calls of requests.get and time.sleep.     *)
(***************************************************************************)
NewCall(url, max_retries) ==
    [pc |-> "entry", url |-> url, max_retries |-> max_retries, attempt |-> 0,
     requests |-> 0, sleeps |-> 0, ret |-> "", exc |-> NoExc]

Return(st, value) == [st EXCEPT !.pc = "returned", !.ret = value]

Raise(st, e) == [st EXCEPT !.pc = "raised", !.exc = e]

\* Lines 41-45, mutated: the loop body runs once before the bound is tested.
FetchEntryDoWhile(st) ==
    IF Falsy(st.url) THEN Return(st, "")
    ELSE [st EXCEPT !.pc = "request", !.attempt = 0]

\* Lines 41-45, mutated: the url is not looked at.
FetchEntryAnyUrl(st) ==
    IF st.max_retries <= 0 THEN Return(st, "")
    ELSE [st EXCEPT !.pc = "request", !.attempt = 0]

\* Lines 41-45: the guard on url, then the first evaluation of range(max_retries).
FetchEntry(st) ==
    IF Falsy(st.url) THEN Return(st, "")
    ELSE IF st.max_retries <= 0 THEN Return(st, "")
    ELSE [st EXCEPT !.pc = "request", !.attempt = 0]

\* Lines 70-76, mutated: sleeps after the last attempt too.
AfterFailureAlwaysSleeps(st) ==
    [st EXCEPT !.pc = "sleeping", !.sleeps = @ + 1]

\* Lines 70-76: after a retryable failure, sleep unless this was the last attempt.
AfterFailure(st) ==
    IF st.attempt < st.max_retries - 1
    THEN [st EXCEPT !.pc = "sleeping", !.sleeps = @ + 1]
    ELSE Return(st, "")

\* Lines 46-68: one loop iteration's try statement, given what requests.get did.
FetchAttempt(st, resp) ==
    LET made == [st EXCEPT !.requests = @ + 1]
        e == IF resp.exc # NoExc THEN resp.exc ELSE RaiseForStatus(resp.status)
    IN  IF e = NoExc THEN Return(made, resp.text)
        ELSE IF IsHTTPError(e)
        THEN IF IsClientError(resp.status) THEN Return(made, "")
             ELSE AfterFailure(made)
        ELSE IF IsRequestException(e) THEN AfterFailure(made)
        ELSE Raise(made, e)

\* time.sleep(delay_seconds) ends: the next loop iteration, or line 79 when
\* range(max_retries) is exhausted.
FetchWake(st) ==
    IF st.attempt + 1 < st.max_retries
    THEN [st EXCEPT !.pc = "request", !.attempt = @ + 1]
    ELSE Return(st, "")

(***************************************************************************)
(* The variables of a whole run, and their values in the specifications    *)
(* that make one direct call only.                                         *)
(***************************************************************************)
runVars == <<sites, max_workers, task, worker, orch, results, log, file>>

vars == <<call, trace, ex, sites, max_workers, task, worker, orch, results, log, file>>

NoFile == [written |-> FALSE, rows |-> <<>>]

NoRun ==
    /\ sites = <<>>
    /\ max_workers = 0
    /\ task = <<>>
    /\ worker = <<>>
    /\ orch = [pc |-> "idle"]
    /\ results = <<>>
    /\ log = <<>>
    /\ file = NoFile

(***************************************************************************)
(* SpecFetch: one direct call fetch_html(url, max_retries) against every   *)
(* sequence of responses.  trace records the call's history: an entry      *)
(* [kind |-> "request", status, exc, text] per requests.get and            *)
(* [kind |-> "sleep"] per time.sleep.                                      *)
(***************************************************************************)
Urls == {None, "", "http://a.edu/staff"}

SleepEvent == [kind |-> "sleep", status |-> 0, exc |-> NoExc, text |-> ""]

RequestEvent(resp) ==
    [kind |-> "request", status |-> resp.status, exc |-> resp.exc, text |-> resp.text]

ExIdle == [pc |-> "idle", soup |-> <<>>, config |-> <<>>, exc |-> NoExc, value |-> <<>>]

InitFetch ==
    /\ \E u \in Urls, m \in 0..MaxRetriesBound : call = NewCall(u, m)
    /\ trace = <<>>
    /\ ex = ExIdle
    /\ NoRun

CallEntry ==
    /\ call.pc = "entry"
    /\ call' = FetchEntry(call)
    /\ UNCHANGED <<trace, ex, runVars>>

CallRequest ==
    /\ call.pc = "request"
    /\ \E resp \in Responses :
        /\ call' = FetchAttempt(call, resp)
        /\ trace' = trace \o <<RequestEvent(resp)>>
                          \o (IF call'.sleeps > call.sleeps THEN <<SleepEvent>> ELSE <<>>)
    /\ UNCHANGED <<ex, runVars>>

CallWake ==
    /\ call.pc = "sleeping"
    /\ call' = FetchWake(call)
    /\ UNCHANGED <<trace, ex, runVars>>

NextFetch == CallEntry \/ CallRequest \/ CallWake

SpecFetch == InitFetch /\ [][NextFetch]_vars

(***************************************************************************)
(* Strings that the extractor edits are sequences of tokens; " " is a      *)
(* whitespace token and "mailto:" the scheme prefix.  A field value is a   *)
(* str or None.                                                            *)
(***************************************************************************)
PyNone == [isNone |-> TRUE, s |-> <<>>]

Str(tokens) == [isNone |-> FALSE, s |-> tokens]

RECURSIVE LStrip(_)
LStrip(t) == IF t # <<>> /\ Head(t) = " " THEN LStrip(Tail(t)) ELSE t

RECURSIVE RStrip(_)
RStrip(t) ==
    IF t # <<>> /\ t[Len(t)] = " " THEN RStrip(SubSeq(t, 1, Len(t) - 1)) ELSE t

\* str.strip()
Strip(t) == RStrip(LStrip(t))

\* str.replace(old, ''): every occurrence of old goes, wherever it stands.
Replace(t, old) == SelectSeq(t, LAMBDA tok : tok # old)

\* str.lower() on the field names of the configurations below.
Lower(name) ==
    CASE name = "Name" -> "name"
      [] name = "EMAIL" -> "email"
      [] name = "Image_URL" -> "image_url"
      [] OTHER -> name

(***************************************************************************)
(* The HTML/CSS boundary.  A Tag is [text, attrs]: its text and a function *)
(* from the names of the attributes it has to their values.  A row element *)
(* is [sels, cells]: the row selectors that match it and, per field        *)
(* selector, the descendants matching it in document order.  A container   *)
(* element is [sels, rows].  A soup is the sequence of the containers of   *)
(* the page in document order.                                             *)
(***************************************************************************)
NoAttrs == [a \in {} |-> <<>>]

Attr(name, value) == [a \in {name} |-> value]

TagName == [text |-> <<" ", "Jane Doe", " ">>, attrs |-> NoAttrs]

TagNick == [text |-> <<"JD">>, attrs |-> Attr("href", <<"/staff/jd">>)]

TagMail ==
    [text |-> <<"Email Jane">>,
     attrs |-> Attr("href", <<" ", "mailto:", "jane@doe.edu", " ">>)]

\* An address link that copies a second address: mailto:jane@doe.edu?cc=mailto:joe@doe.edu
TagMailCc ==
    [text |-> <<"Email both">>,
     attrs |-> Attr("href", <<"mailto:", "jane@doe.edu", "?cc=", "mailto:", "joe@doe.edu">>)]

TagImg == [text |-> <<>>, attrs |-> Attr("src", <<" ", "/img/jane.jpg">>)]

FieldSelectors == {".name", ".nick", ".mail", "img"}

NoCells == [f \in FieldSelectors |-> <<>>]

RowFull ==
    [sels |-> {"tr", ".staff"},
     cells |-> [NoCells EXCEPT ![".name"] = <<TagName>>, ![".mail"] = <<TagMail>>,
                               !["img"] = <<TagImg>>]]

RowPartial ==
    [sels |-> {"tr", ".staff"},
     cells |-> [NoCells EXCEPT ![".name"] = <<TagNick, TagName>>,
                               ![".nick"] = <<TagNick>>]]

RowHeader == [sels |-> {"tr"}, cells |-> NoCells]

RowCc ==
    [sels |-> {"tr", ".staff"},
     cells |-> [NoCells EXCEPT ![".name"] = <<TagName>>, ![".mail"] = <<TagMailCc>>]]

RowKinds == <<RowFull, RowPartial, RowHeader, RowCc>>

\* element.select(selector): the matching elements, in document order.
Select(elements, selector) == SelectSeq(elements, LAMBDA e : selector \in e.sels)

\* row.select_one(selector): the first match, or no tag.
SelectOne(row, selector) ==
    IF selector \in DOMAIN row.cells /\ row.cells[selector] # <<>>
    THEN <<Head(row.cells[selector])>> ELSE <<>>

(***************************************************************************)
(* scrape_generic_table(soup, config).  A table configuration is           *)
(* [table_container_selector, wrapper_index, row_selector,                 *)
(* field_selectors]: wrapper_index is <<>> when the key is missing and     *)
(* <<i>> otherwise; field_selectors is the mapping in its iteration order, *)
(* each entry [name, isDict, selector, attribute].  A missing              *)
(* table_container_selector key is None: subscripting it is a KeyError.    *)
(***************************************************************************)
\* config.get('wrapper_index', 0)
WrapperIndex(config) ==
    IF config.wrapper_index = <<>> THEN 0 ELSE config.wrapper_index[1]

\* Lines 141-148: the selector string and the attribute name of a field.
AttributeName(field) == IF field.isDict THEN field.attribute ELSE None

\* Lines 157-166, mutated: the email case is tried before the attribute.
FieldValueEmailFirst(row, field) ==
    LET tag == SelectOne(row, field.selector)
        attribute_name == AttributeName(field)
    IN  IF tag = <<>> THEN PyNone
        ELSE IF field.name = "email" /\ "href" \in DOMAIN tag[1].attrs
        THEN Str(Strip(Replace(tag[1].attrs["href"], "mailto:")))
        ELSE IF ~Falsy(attribute_name)
        THEN IF attribute_name \in DOMAIN tag[1].attrs
             THEN Str(tag[1].attrs[attribute_name]) ELSE PyNone
        ELSE Str(Strip(tag[1].text))

\* Lines 155-166: the value of one field in one row.
FieldValue(row, field) ==
    LET tag == SelectOne(row, field.selector)
        attribute_name == AttributeName(field)
    IN  IF tag = <<>> THEN PyNone
        ELSE IF ~Falsy(attribute_name)
        THEN IF attribute_name \in DOMAIN tag[1].attrs
             THEN Str(tag[1].attrs[attribute_name]) ELSE PyNone
        ELSE IF field.name = "email" /\ "href" \in DOMAIN tag[1].attrs
        THEN Str(Strip(Replace(tag[1].attrs["href"], "mailto:")))
        ELSE Str(Strip(tag[1].text))

\* member[key] = value on a dict
SetItem(member, key, value) ==
    [k \in DOMAIN member \cup {key} |-> IF k = key THEN value ELSE member[k]]

\* Line 168: member[field_name.lower()] = value
StoreField(member, row, field) ==
    SetItem(member, Lower(field.name), FieldValue(row, field))

\* Lines 135-168: the record of one row, the fields taken in iteration order.
RECURSIVE MemberFrom(_, _, _)
MemberFrom(member, row, fields) ==
    IF fields = <<>> THEN member
    ELSE MemberFrom(StoreField(member, row, Head(fields)), row, Tail(fields))

EmptyDict == [k \in {} |-> PyNone]

Member(row, config) == MemberFrom(EmptyDict, row, config.field_selectors)

\* Line 123, mutated: an index equal to the number of containers passes.
ContainerMissingOffByOne(all_tables, table_index) ==
    Len(all_tables) = 0 \/ Len(all_tables) < table_index

\* Line 123: `not all_tables or len(all_tables) <= table_index`
ContainerMissing(all_tables, table_index) ==
    Len(all_tables) = 0 \/ Len(all_tables) <= table_index

\* Line 128: all_tables[table_index], as a position counted from 1 (0 when the
\* subscript is out of range, an IndexError); a negative index counts from the end.
TablePosition(all_tables, table_index) ==
    LET pos == IF table_index >= 0 THEN table_index + 1
               ELSE Len(all_tables) + table_index + 1
    IN  IF pos \in 1..Len(all_tables) THEN pos ELSE 0

\* Lines 131-170, mutated: rows that yield no value at all are left out.
RowRecordsSkipEmpty(table, config) ==
    LET rows == Select(table.rows, config.row_selector)
        kept == SelectSeq(rows, LAMBDA r :
                    \E k \in DOMAIN Member(r, config) : ~Member(r, config)[k].isNone)
    IN  [i \in 1..Len(kept) |-> Member(kept[i], config)]

\* Lines 131-170: one record per row matched in the table, in document order.
RowRecords(table, config) ==
    LET rows == Select(table.rows, config.row_selector)
    IN  [i \in 1..Len(rows) |-> Member(rows[i], config)]

\* The whole function: [exc, value], exc the exception that left it, if any.
ScrapeGenericTable(soup, config) ==
    LET all_tables == Select(soup, config.table_container_selector)
        table_index == WrapperIndex(config)
    IN  IF config.table_container_selector = None
        THEN [exc |-> "KeyError", value |-> <<>>]
        ELSE IF ContainerMissing(all_tables, table_index)
        THEN [exc |-> NoExc, value |-> <<>>]
        ELSE IF TablePosition(all_tables, table_index) = 0
        THEN [exc |-> "IndexError", value |-> <<>>]
        ELSE [exc |-> NoExc,
              value |-> RowRecords(all_tables[TablePosition(all_tables, table_index)],
                                   config)]


(***************************************************************************)
(* pandas.  A DataFrame is [columns, index, rows]: the set of its column   *)
(* names, its row labels and its rows, each row a function from the        *)
(* columns to values.  NaN fills the cells a concatenation has no value    *)
(* for.                                                                    *)
(***************************************************************************)
NaN == [isNone |-> TRUE, s |-> <<"NaN">>]

\* pd.DataFrame()
EmptyFrame == [columns |-> {}, index |-> <<>>, rows |-> <<>>]

\* pd.DataFrame(records): the columns are the keys met, the index is 0..n-1.
DataFrame(records) ==
    LET cols == UNION {DOMAIN records[i] : i \in 1..Len(records)}
    IN  [columns |-> cols,
         index |-> [i \in 1..Len(records) |-> i - 1],
         rows |-> [i \in 1..Len(records) |->
                     [c \in cols |-> IF c \in DOMAIN records[i]
                                     THEN records[i][c] ELSE NaN]]]

\* df[column] = value, a scalar broadcast to every row.
SetColumn(df, column, value) ==
    [columns |-> df.columns \cup {column},
     index |-> df.index,
     rows |-> [i \in 1..Len(df.rows) |-> SetItem(df.rows[i], column, value)]]

\* pd.concat(frames): the rows of the frames in order, each keeping its label.
RECURSIVE Concat(_)
Concat(frames) ==
    IF frames = <<>> THEN EmptyFrame
    ELSE LET rest == Concat(Tail(frames))
             first == Head(frames)
             cols == first.columns \cup rest.columns
             Widen(row) == [c \in cols |-> IF c \in DOMAIN row THEN row[c] ELSE NaN]
         IN  [columns |-> cols,
              index |-> first.index \o rest.index,
              rows |-> [i \in 1..Len(first.rows) |-> Widen(first.rows[i])]
                         \o [i \in 1..Len(rest.rows) |-> Widen(rest.rows[i])]]

\* df.reset_index().drop(columns='index')
ResetIndex(df) == [df EXCEPT !.index = [i \in 1..Len(df.rows) |-> i - 1]]

(***************************************************************************)
(* parse_site(school, config).  A site configuration is                    *)
(* [handler, url, items]: whether the 'handler' key is present, the value  *)
(* of config.get("url") and the other entries of the mapping in iteration  *)
(* order, each [key, value] with key = [stem, suffix] (the key is stem     *)
(* followed by suffix, and suffix is "_TABLE" or empty) and value a table  *)
(* configuration.                                                          *)
(***************************************************************************)
\* table_key.endswith('_TABLE')
EndsWithTable(key) == key.suffix = "_TABLE"

\* table_key[:-6].capitalize() for the keys of the configurations below.
StaffType(key) ==
    CASE key.stem = "COACHES" -> "Coaches"
      [] key.stem = "SUPPORT_STAFF" -> "Support_staff"
      [] key.stem = "staff" -> "Staff"
      [] key.stem = "ASSISTANTS" -> "Assistants"
      [] key.stem = "interns" -> "Interns"
      [] OTHER -> key.stem

\* Lines 97-98: d['staff_type'] = ... for every record of the block.
Stamp(data, key) ==
    [i \in 1..Len(data) |-> SetItem(data[i], "staff_type", Str(<<StaffType(key)>>))]

\* Lines 94-99: the blocks' record lists, in the order of the mapping; exc is
\* the exception of the first block that raised.
RECURSIVE StaffData(_, _, _)
StaffData(soup, items, acc) ==
    IF items = <<>> THEN [exc |-> NoExc, value |-> acc]
    ELSE IF ~EndsWithTable(Head(items).key) THEN StaffData(soup, Tail(items), acc)
    ELSE LET data == ScrapeGenericTable(soup, Head(items).value)
         IN  IF data.exc # NoExc THEN [exc |-> data.exc, value |-> acc]
             ELSE StaffData(soup, Tail(items),
                            Append(acc, Stamp(data.value, Head(items).key)))

\* Lines 106-109, mutated: the frame of the first block is returned whatever
\* the number of blocks.
MergeBlocksFirstOnly(school, staff_data) ==
    LET frames == [i \in 1..Len(staff_data) |->
                      SetColumn(DataFrame(staff_data[i]), "school", Str(<<school>>))]
    IN  IF Len(frames) >= 1 THEN [exc |-> NoExc, value |-> frames[1]]
        ELSE [exc |-> "IndexError", value |-> EmptyFrame]

\* Lines 106-107, mutated: the concatenated frame keeps the labels of its parts.
MergeBlocksKeepsLabels(school, staff_data) ==
    LET frames == [i \in 1..Len(staff_data) |->
                      SetColumn(DataFrame(staff_data[i]), "school", Str(<<school>>))]
    IN  IF Len(frames) > 1 THEN [exc |-> NoExc, value |-> Concat(frames)]
        ELSE IF Len(frames) = 1 THEN [exc |-> NoExc, value |-> frames[1]]
        ELSE [exc |-> "IndexError", value |-> EmptyFrame]

\* Lines 101-111: the frames of the blocks merged into the site's frame.
MergeBlocks(school, staff_data) ==
    LET frames == [i \in 1..Len(staff_data) |->
                      SetColumn(DataFrame(staff_data[i]), "school", Str(<<school>>))]
    IN  IF Len(frames) > 1 THEN [exc |-> NoExc, value |-> ResetIndex(Concat(frames))]
        ELSE IF Len(frames) = 1 THEN [exc |-> NoExc, value |-> frames[1]]
        ELSE [exc |-> "IndexError", value |-> EmptyFrame]


(***************************************************************************)
(* Field configurations: a plain selector string, or a structured          *)
(* descriptor with 'selector' and 'attribute'.                             *)
(***************************************************************************)
TextField(name, selector) ==
    [name |-> name, isDict |-> FALSE, selector |-> selector, attribute |-> None]

AttributeField(name, selector, attribute) ==
    [name |-> name, isDict |-> TRUE, selector |-> selector, attribute |-> attribute]

FieldsPlain ==
    <<TextField("name", ".name"), TextField("email", ".mail"),
      AttributeField("image_url", "img", "src")>>

FieldsMixedCase ==
    <<TextField("Name", ".name"), TextField("EMAIL", ".mail"),
      AttributeField("Image_URL", "img", "alt")>>

FieldsColliding ==
    <<TextField("name", ".nick"), TextField("Name", ".name"),
      TextField("email", ".mail")>>

FieldsAttribute ==
    <<AttributeField("email", ".mail", "href"), AttributeField("name", ".name", ""),
      AttributeField("nick", ".nick", None), AttributeField("link", ".name", "href")>>

FieldSets == {FieldsPlain, FieldsMixedCase, FieldsColliding, FieldsAttribute}

(***************************************************************************)
(* The sites of a whole run: their configurations, and the pages their     *)
(* urls serve.                                                             *)
(***************************************************************************)
UrlA == "http://a.edu/staff"

UrlB == "http://b.edu/coaches"

HtmlA == "<html>a.edu</html>"

HtmlB == "<html>b.edu</html>"

\* The text a 200 response of the url carries.
PageText(url) == IF url = UrlA THEN HtmlA ELSE HtmlB

\* BeautifulSoup(html, "html.parser"), as the containers of the page.
ParseHtml(html) ==
    IF html = HtmlA
    THEN <<[sels |-> {".tbl"}, rows |-> <<RowFull, RowHeader, RowPartial>>]>>
    ELSE <<[sels |-> {".tbl"}, rows |-> <<RowPartial>>],
           [sels |-> {".other"}, rows |-> <<RowFull>>],
           [sels |-> {".tbl"}, rows |-> <<RowFull, RowFull>>]>>

TableConfig(container, index, row, fields) ==
    [table_container_selector |-> container, wrapper_index |-> index,
     row_selector |-> row, field_selectors |-> fields]

Item(stem, suffix, value) == [key |-> [stem |-> stem, suffix |-> suffix], value |-> value]

CoachesBlock == Item("COACHES", "_TABLE", TableConfig(".tbl", <<>>, ".staff", FieldsPlain))

StaffBlock == Item("SUPPORT_STAFF", "_TABLE", TableConfig(".tbl", <<1>>, "tr", FieldsMixedCase))

MissingBlock == Item("staff", "_TABLE", TableConfig(".none", <<>>, "tr", FieldsPlain))

BrokenBlock == Item("COACHES", "_TABLE", TableConfig(None, <<>>, "tr", FieldsPlain))

NotABlock == Item("COACHES_TABLE_OLD", "", TableConfig(".tbl", <<>>, "tr", FieldsPlain))

\* Every row of the first container.
AllRowsBlock == Item("COACHES", "_TABLE", TableConfig(".tbl", <<>>, "tr", FieldsPlain))

AssistantsBlock ==
    Item("ASSISTANTS", "_TABLE", TableConfig(".tbl", <<>>, "tr", FieldsAttribute))

\* A wrapper_index past the last container of every page.
IndexOutBlock == Item("ASSISTANTS", "_TABLE", TableConfig(".tbl", <<5>>, "tr", FieldsPlain))

\* A row selector that matches no row of any page.
NoRowsBlock == Item("interns", "_TABLE", TableConfig(".tbl", <<>>, ".absent", FieldsPlain))

SiteConfig(handler, url, items) == [handler |-> handler, url |-> url, items |-> items]

\* The configurations met, and the mappings self.sites of the runs checked: up
\* to NumSites consecutive entries of the repeating pattern below.
SiteConfigs ==
    <<SiteConfig(FALSE, UrlA, <<CoachesBlock>>),
      SiteConfig(TRUE, UrlA, <<CoachesBlock>>),
      SiteConfig(FALSE, None, <<CoachesBlock>>),
      SiteConfig(FALSE, UrlA, <<NotABlock>>),
      SiteConfig(FALSE, UrlB, <<MissingBlock, NotABlock, StaffBlock>>),
      SiteConfig(FALSE, UrlB, <<BrokenBlock>>),
      SiteConfig(FALSE, UrlA, <<AllRowsBlock>>),
      SiteConfig(FALSE, UrlA, <<AssistantsBlock>>),
      SiteConfig(FALSE, UrlB, <<CoachesBlock, StaffBlock>>)>>

SiteAt(i) == SiteConfigs[((i - 1) % Len(SiteConfigs)) + 1]

SiteMaps ==
    {[i \in 1..n |-> SiteAt(a + i - 1)] : a \in 1..Len(SiteConfigs), n \in 0..NumSites}

\* The name of the i-th school of the mapping.
School(i) ==
    CASE i = 1 -> "Alpha" [] i = 2 -> "Beta" [] i = 3 -> "Gamma"
      [] i = 4 -> "Delta" [] OTHER -> "Omega"

\* What a request of a site's url can do during a whole run.
RunResponses(url) ==
    [status : {200}, exc : {NoExc}, text : {PageText(url)}]
        \cup [status : {404, 503}, exc : {NoExc}, text : {""}]
        \cup [status : {0}, exc : {"Timeout"}, text : {""}]

(***************************************************************************)
(* parse_site(school, config), continued: the function in the steps of a   *)
(* worker thread.  It suspends only inside fetch_html.                     *)
(***************************************************************************)
\* Lines 91-111: from the parsed page to the result.
ParsePage(school, config, html) ==
    LET staff_data == StaffData(ParseHtml(html), config.items, <<>>)
    IN  IF staff_data.exc # NoExc
        THEN [exc |-> staff_data.exc, value |-> EmptyFrame]
        ELSE MergeBlocks(school, staff_data.value)

\* ParsePage is a function of its arguments only: its values for the sites of
\* the repeating pattern, each on the page its url serves, computed once.
ParsedPages ==
    [k \in 1..Len(SiteConfigs), i \in 1..NumSites |->
        ParsePage(School(i), SiteConfigs[k], PageText(SiteConfigs[k].url))]

\* Lines 88-111: from the html that fetch_html returned to the result.
ParseAfterFetch(school, config, html) ==
    IF Falsy(html) THEN [exc |-> NoExc, value |-> EmptyFrame]
    ELSE IF \E k \in 1..Len(SiteConfigs), i \in 1..NumSites :
                SiteConfigs[k] = config /\ School(i) = school /\ PageText(config.url) = html
    THEN LET key == CHOOSE key \in (1..Len(SiteConfigs)) \X (1..NumSites) :
                        SiteConfigs[key[1]] = config /\ School(key[2]) = school
         IN  ParsedPages[key[1], key[2]]
    ELSE ParsePage(school, config, html)

\* The future's outcome once the fetch has returned or raised.
ParseOutcome(school, config, fetch) ==
    IF fetch.pc = "raised" THEN [exc |-> fetch.exc, value |-> EmptyFrame]
    ELSE ParseAfterFetch(school, config, fetch.ret)

Uncalled == [NewCall(None, DefaultMaxRetries) EXCEPT !.pc = "uncalled"]

\* The activation record of fetch_html is gone once parse_site is over: what is
\* kept of it is the html it returned.
Popped(fetch) ==
    [NewCall(None, DefaultMaxRetries) EXCEPT !.pc = "popped", !.ret = fetch.ret]

\* A future not yet submitted: state is "new", then "queued" (submitted),
\* "running" (a worker is inside parse_site) and "finished"; fetch is the
\* activation record of the fetch_html call of parse_site; starts counts the
\* invocations of parse_site and requested tells whether the invocation ever
\* called requests.get; exc and value are the future's outcome; order is the
\* rank of the future in the order of completion of a run (0: not completed).
NewTask ==
    [state |-> "new", fetch |-> Uncalled, starts |-> 0, requested |-> FALSE,
     exc |-> NoExc, value |-> EmptyFrame, order |-> 0]

\* The task after a step that took its fetch to `fetch`: still running while
\* the fetch is, finished with the outcome of parse_site once it is over.
Continue(t, school, config, fetch) ==
    IF fetch.pc \in {"returned", "raised"}
    THEN LET out == ParseOutcome(school, config, fetch)
         IN  [t EXCEPT !.state = "finished", !.fetch = Popped(fetch),
                       !.requested = fetch.requests > 0,
                       !.exc = out.exc, !.value = out.value]
    ELSE [t EXCEPT !.fetch = fetch, !.requested = fetch.requests > 0]

\* Lines 83-87, mutated: the handler marker is not looked at.
ParseEntryIgnoresHandler(t, school, config) ==
    Continue(t, school, config, FetchEntry(NewCall(config.url, DefaultMaxRetries)))

\* Lines 83-87: the handler marker, then the call of fetch_html(url).
ParseEntry(t, school, config) ==
    IF config.handler
    THEN [t EXCEPT !.state = "finished", !.exc = NoExc, !.value = EmptyFrame]
    ELSE Continue(t, school, config, FetchEntry(NewCall(config.url, DefaultMaxRetries)))


(***************************************************************************)
(* SpecExtract: one direct call scrape_generic_table(soup, config) on      *)
(* every page and table configuration of a bounded family.                 *)
(***************************************************************************)
\* Containers hold up to MaxRows consecutive rows of the repeating pattern
\* full, partial, header, ...; one more container matches another selector.
RowAt(i) == RowKinds[((i - 1) % Len(RowKinds)) + 1]

Window(a, n) == [i \in 1..n |-> RowAt(a + i - 1)]

Containers ==
    {[sels |-> {".tbl"}, rows |-> Window(a, n)] :
        a \in 1..Len(RowKinds), n \in 0..MaxRows}
        \cup {[sels |-> {".other"}, rows |-> <<RowFull>>]}

Soups == UNION {[1..n -> Containers] : n \in 0..MaxContainers}

WrapperIndexes == {<<>>} \cup {<<i>> : i \in -1..MaxWrapperIndex}

TableConfigs ==
    [table_container_selector : {".tbl", ".none"},
     wrapper_index : WrapperIndexes,
     row_selector : {"tr", ".staff"},
     field_selectors : FieldSets]

InitExtract ==
    /\ \E soup \in Soups, config \in TableConfigs :
          ex = [pc |-> "call", soup |-> soup, config |-> config,
                exc |-> NoExc, value |-> <<>>]
    /\ call = NewCall(None, 0)
    /\ trace = <<>>
    /\ NoRun

ExtractCall ==
    /\ ex.pc = "call"
    /\ LET r == ScrapeGenericTable(ex.soup, ex.config)
       IN  ex' = [ex EXCEPT !.pc = IF r.exc = NoExc THEN "returned" ELSE "raised",
                            !.exc = r.exc, !.value = r.value]
    /\ UNCHANGED <<call, trace, runVars>>

NextExtract == ExtractCall

SpecExtract == InitExtract /\ [][NextExtract]_vars


(***************************************************************************)
(* Spec: a whole run.  The main thread runs scrape_all (submit every site, *)
(* then collect the futures as they complete) and then save_csv; the       *)
(* threads of ThreadPoolExecutor(max_workers) run parse_site.              *)
(***************************************************************************)
Schools == 1..Len(sites)

Init ==
    /\ sites \in SiteMaps
    /\ max_workers \in 1..MaxWorkers
    /\ task = [s \in 1..Len(sites) |-> NewTask]
    /\ worker = [w \in 1..max_workers |-> 0]
    /\ orch = [pc |-> "submit", next |-> 1, pending |-> {}, early |-> {},
               before |-> 0, ready |-> <<>>, exc |-> NoExc]
    /\ results = <<>>
    /\ log = <<>>
    /\ file = NoFile
    /\ call = NewCall(None, 0)
    /\ trace = <<>>
    /\ ex = ExIdle

directVars == <<call, trace, ex>>

Message(msg, school) == [msg |-> msg, school |-> school]

\* Lines 178-181: executor.submit(self.parse_site, school, conf) for the next
\* school of self.sites.
Submit ==
    /\ orch.pc = "submit"
    /\ orch.next <= Len(sites)
    /\ task' = [task EXCEPT ![orch.next].state = "queued"]
    /\ orch' = [orch EXCEPT !.next = @ + 1]
    /\ UNCHANGED <<directVars, sites, max_workers, worker, results, log, file>>

\* The futures of the run that are completed.
Finished == {s \in Schools : task[s].state = "finished"}

\* Line 183: as_completed(futures) is called: the futures already finished are
\* yielded first, in no particular order, the others as they finish.  before
\* keeps how many were finished at the call.
BeginCollect ==
    /\ orch.pc = "submit"
    /\ orch.next > Len(sites)
    /\ orch' = [orch EXCEPT !.pc = "collect", !.pending = Schools,
                            !.early = Finished, !.before = Cardinality(Finished)]
    /\ UNCHANGED <<directVars, sites, max_workers, task, worker, results, log, file>>

\* The pool, mutated: a thread takes a work item while it still runs another.
WorkerFreeAlways(w) == TRUE

\* The pool, mutated: only its first thread ever takes work.
WorkerFreeOnlyFirst(w) == w = 1 /\ worker[w] = 0

\* A pool thread takes a work item only when it runs none.
WorkerFree(w) == worker[w] = 0

\* The work queue is first in, first out: s is the oldest item queued.
HeadOfQueue(s) ==
    /\ task[s].state = "queued"
    /\ \A r \in Schools : r < s => task[r].state # "queued"

\* An idle pool thread takes the oldest work item and calls parse_site.
TaskStart ==
    \E w \in DOMAIN worker, s \in Schools :
        /\ WorkerFree(w)
        /\ HeadOfQueue(s)
        /\ worker' = [worker EXCEPT ![w] = s]
        /\ task' = [task EXCEPT ![s].state = "running", ![s].starts = @ + 1]
        /\ UNCHANGED <<directVars, sites, max_workers, orch, results, log, file>>

\* The same step, mutated: the worker thread appends its own result to
\* self.results when parse_site is over.
AdvanceAppendsResult(w, s, t) ==
    /\ task' = [task EXCEPT ![s] = IF t.state = "finished"
                                   THEN [t EXCEPT !.order = Cardinality(Finished) + 1]
                                   ELSE t]
    /\ IF t.state = "finished"
       THEN /\ worker' = [worker EXCEPT ![w] = 0]
            /\ orch' = IF orch.pc = "collect"
                       THEN [orch EXCEPT !.ready = Append(@, s)] ELSE orch
            /\ results' = Append(results, t.value)
       ELSE UNCHANGED <<worker, orch, results>>
    /\ UNCHANGED <<directVars, sites, max_workers, log, file>>

\* The same step, mutated: as_completed is told of the newest completion first.
AdvanceNewestFirst(w, s, t) ==
    /\ task' = [task EXCEPT ![s] = IF t.state = "finished"
                                   THEN [t EXCEPT !.order = Cardinality(Finished) + 1]
                                   ELSE t]
    /\ IF t.state = "finished"
       THEN /\ worker' = [worker EXCEPT ![w] = 0]
            /\ orch' = IF orch.pc = "collect"
                       THEN [orch EXCEPT !.ready = <<s>> \o @] ELSE orch
       ELSE UNCHANGED <<worker, orch>>
    /\ UNCHANGED <<directVars, sites, max_workers, results, log, file>>

\* The step of thread w took its task to t: when parse_site is over, the future
\* is completed (as_completed is told, once it waits) and the thread is free.
Advance(w, s, t) ==
    /\ task' = [task EXCEPT ![s] = IF t.state = "finished"
                                   THEN [t EXCEPT !.order = Cardinality(Finished) + 1]
                                   ELSE t]
    /\ IF t.state = "finished"
       THEN /\ worker' = [worker EXCEPT ![w] = 0]
            /\ orch' = IF orch.pc = "collect"
                       THEN [orch EXCEPT !.ready = Append(@, s)] ELSE orch
       ELSE UNCHANGED <<worker, orch>>
    /\ UNCHANGED <<directVars, sites, max_workers, results, log, file>>

Running(w) == worker[w] # 0 /\ task[worker[w]].state = "running"

\* parse_site up to its call of fetch_html, and through it when no request is made.
TaskEnter ==
    \E w \in DOMAIN worker :
        /\ Running(w)
        /\ task[worker[w]].fetch.pc = "uncalled"
        /\ Advance(w, worker[w],
                   ParseEntry(task[worker[w]], School(worker[w]), sites[worker[w]]))

\* One requests.get of the site's fetch, and what follows it without suspending.
TaskRequest ==
    \E w \in DOMAIN worker :
        /\ Running(w)
        /\ task[worker[w]].fetch.pc = "request"
        /\ \E resp \in RunResponses(sites[worker[w]].url) :
              Advance(w, worker[w],
                      Continue(task[worker[w]], School(worker[w]), sites[worker[w]],
                               FetchAttempt(task[worker[w]].fetch, resp)))

\* The site's time.sleep ends.
TaskWake ==
    \E w \in DOMAIN worker :
        /\ Running(w)
        /\ task[worker[w]].fetch.pc = "sleeping"
        /\ Advance(w, worker[w],
                   Continue(task[worker[w]], School(worker[w]), sites[worker[w]],
                            FetchWake(task[worker[w]].fetch)))

\* `except Exception`, mutated: only KeyError is caught.
CaughtOnlyKeyError(e) == e = "KeyError"

\* `except Exception`: the exceptions that clause catches.
Caught(e) == e \in {"IndexError", "KeyError", "HTTPError", "Timeout", "ConnectionError"}

\* `data is not None`: parse_site returns a DataFrame on every path.
IsNotNone(data) == TRUE

\* as_completed, mutated: the futures that were finished at the call are never
\* yielded.
YieldsNextOnlyWaiting(s) == orch.ready # <<>> /\ s = Head(orch.ready)

\* as_completed yields s next.
YieldsNext(s) ==
    IF orch.early # {} THEN s \in orch.early
    ELSE orch.ready # <<>> /\ s = Head(orch.ready)

\* Lines 183-194: one iteration of the loop over as_completed(futures).
Collect ==
    /\ orch.pc = "collect"
    /\ \E s \in orch.pending :
        /\ YieldsNext(s)
        /\ LET rest == [orch EXCEPT !.pending = @ \ {s},
                                    !.early = @ \ {s},
                                    !.ready = IF orch.early # {} THEN @ ELSE Tail(@)]
           IN  IF task[s].exc = NoExc
               THEN /\ orch' = rest
                    /\ IF IsNotNone(task[s].value)
                       THEN /\ results' = Append(results, task[s].value)
                            /\ log' = Append(log, Message("completed", s))
                       ELSE /\ results' = results
                            /\ log' = Append(log, Message("No data", s))
               ELSE IF Caught(task[s].exc)
               THEN /\ orch' = rest
                    /\ results' = results
                    /\ log' = Append(log, Message("Error scraping", s))
               ELSE /\ orch' = [rest EXCEPT !.pc = "raised", !.exc = task[s].exc]
                    /\ UNCHANGED <<results, log>>
    /\ UNCHANGED <<directVars, sites, max_workers, task, worker, file>>

\* Lines 195-196: the loop is over, the executor is shut down, scrape_all returns.
ScrapeAllReturn ==
    /\ orch.pc = "collect"
    /\ orch.pending = {}
    /\ orch' = [orch EXCEPT !.pc = "returned"]
    /\ log' = Append(log, Message("Done", Len(results)))
    /\ UNCHANGED <<directVars, sites, max_workers, task, worker, results, file>>

\* Line 200: `not self.results`
NothingToSave(res) == res = <<>>

\* Lines 198-207: save_csv(), called once scrape_all has returned.
SaveCsv ==
    /\ orch.pc = "returned"
    /\ orch' = [orch EXCEPT !.pc = "saved"]
    /\ IF NothingToSave(results)
       THEN /\ log' = Append(log, Message("No results to save.", 0))
            /\ file' = file
       ELSE /\ file' = [written |-> TRUE, rows |-> Concat(results).rows]
            /\ log' = Append(log, Message("Saved", Len(Concat(results).rows)))
    /\ UNCHANGED <<directVars, sites, max_workers, task, worker, results>>

Next ==
    \/ Submit
    \/ BeginCollect
    \/ TaskStart
    \/ TaskEnter
    \/ TaskRequest
    \/ TaskWake
    \/ Collect
    \/ ScrapeAllReturn
    \/ SaveCsv

Spec == Init /\ [][Next]_vars

(***************************************************************************)
(* SpecLive: the runs of Spec in which every network attempt and every     *)
(* sleep ends and the threads keep being scheduled: a step that can be     *)
(* taken is eventually taken.                                              *)
(***************************************************************************)
SpecLive == Spec /\ WF_vars(Next)

(***************************************************************************)
(* SpecStall: the runs of Spec in which the main thread and the pool       *)
(* threads keep being scheduled, except that a site may stay as long as it *)
(* likes in a request or in a sleep of its fetch_html (a long retry        *)
(* sequence): of the sites that are retrying, the one submitted first is   *)
(* under no obligation to go on.                                           *)
(***************************************************************************)
\* parse_site of school s is inside the retry loop of fetch_html: blocked in a
\* request or sleeping between two attempts.
Retrying(s) ==
    /\ s \in Schools
    /\ task[s].state = "running"
    /\ task[s].fetch.pc \in {"request", "sleeping"}

\* The retrying site that may take arbitrarily long.
Stalled(s) == Retrying(s) /\ \A r \in Schools : r < s => ~Retrying(r)

\* A step of the run other than a step of the fetch of the stalled site.
StepBesidesStalled == Next /\ \A s \in Schools : Stalled(s) => task'[s] = task[s]

SpecStall == Spec /\ WF_vars(StepBesidesStalled)


(***************************************************************************)
(* SpecParse: one direct call parse_site(school, config), on every site    *)
(* configuration of a bounded family and against every sequence of         *)
(* responses.  sites holds the one configuration and task[1] the           *)
(* activation of the call; no pool and no scrape_all are involved.         *)
(***************************************************************************)
BlockKinds ==
    {CoachesBlock, StaffBlock, MissingBlock, BrokenBlock, NotABlock,
     AllRowsBlock, IndexOutBlock, NoRowsBlock}

\* The keys of a mapping are distinct.
DistinctKeys(items) ==
    \A i, j \in DOMAIN items : items[i].key = items[j].key => i = j

ItemLists ==
    {items \in UNION {[1..n -> BlockKinds] : n \in 0..MaxBlocks} : DistinctKeys(items)}

ParseConfigs ==
    {SiteConfig(handler, url, items) :
        handler \in BOOLEAN, url \in {None, "", UrlA, UrlB}, items \in ItemLists}

InitParse ==
    /\ sites \in {<<config>> : config \in ParseConfigs}
    /\ task = <<NewTask>>
    /\ max_workers = 0
    /\ worker = <<>>
    /\ orch = [pc |-> "idle"]
    /\ results = <<>>
    /\ log = <<>>
    /\ file = NoFile
    /\ call = NewCall(None, 0)
    /\ trace = <<>>
    /\ ex = ExIdle

parseFrame == <<directVars, sites, max_workers, worker, orch, results, log, file>>

\* The call, up to the first suspension inside fetch_html.
ParseCallEnter ==
    /\ task[1].state = "new"
    /\ task' = <<ParseEntry([task[1] EXCEPT !.state = "running", !.starts = 1],
                            School(1), sites[1])>>
    /\ UNCHANGED parseFrame

ParseCallRequest ==
    /\ task[1].state = "running"
    /\ task[1].fetch.pc = "request"
    /\ \E resp \in RunResponses(sites[1].url) :
          task' = <<Continue(task[1], School(1), sites[1],
                             FetchAttempt(task[1].fetch, resp))>>
    /\ UNCHANGED parseFrame

ParseCallWake ==
    /\ task[1].state = "running"
    /\ task[1].fetch.pc = "sleeping"
    /\ task' = <<Continue(task[1], School(1), sites[1], FetchWake(task[1].fetch))>>
    /\ UNCHANGED parseFrame

NextParse == ParseCallEnter \/ ParseCallRequest \/ ParseCallWake

SpecParse == InitParse /\ [][NextParse]_vars


(***************************************************************************)
(* Properties of fetch_html, checked under SpecFetch.                      *)
(***************************************************************************)
IsRequestAt(i) == trace[i].kind = "request"

IsSleepAt(i) == trace[i].kind = "sleep"

\* The attempt got a response whose status raise_for_status lets through.
IsSuccessAt(i) ==
    IsRequestAt(i) /\ trace[i].exc = NoExc /\ ~(trace[i].status \in 400..599)

\* The attempt got a response with a client-error status.
IsClientErrorAt(i) ==
    IsRequestAt(i) /\ trace[i].exc = NoExc /\ trace[i].status \in 400..499

\* The attempt ended in a server error or in a transport failure.
IsRetryableAt(i) ==
    IsRequestAt(i) /\ (trace[i].exc # NoExc \/ trace[i].status \in 500..599)

RequestsMade == Cardinality({i \in 1..Len(trace) : IsRequestAt(i)})

SleepsTaken == Cardinality({i \in 1..Len(trace) : IsSleepAt(i)})

\* C2: a 4xx response ends the call at once: it is the last event of the call
\* (no request and no sleep follows it), the call has returned, and it returned
\* the empty string; so a 404 on the first attempt means exactly one request.
C2_ClientErrorNotRetried ==
    /\ call.requests = RequestsMade
    /\ \A i \in 1..Len(trace) :
          IsClientErrorAt(i) =>
              /\ i = Len(trace)
              /\ call.pc = "returned"
              /\ call.ret = ""
    /\ (Len(trace) >= 1 /\ IsClientErrorAt(1)) =>
          (call.requests = 1 /\ call.sleeps = 0)

C2_Witness ==
    /\ call.pc = "returned"
    /\ call.max_retries = 3
    /\ Len(trace) = 1
    /\ trace[1].kind = "request" /\ trace[1].status = 404
    /\ call.requests = 1

\* C3: never more than max_retries requests (none when max_retries = 0); a
\* successful attempt is the last event and its body is what is returned; when
\* max_retries attempts all ended in a server error or a transport failure the
\* call has returned the empty string.
C3_BoundedAttempts ==
    /\ call.requests = RequestsMade
    /\ call.requests <= call.max_retries
    /\ \A i \in 1..Len(trace) :
          IsSuccessAt(i) =>
              /\ i = Len(trace)
              /\ call.pc = "returned"
              /\ call.ret = trace[i].text
    /\ ( /\ call.max_retries > 0
         /\ Cardinality({i \in 1..Len(trace) : IsRetryableAt(i)}) = call.max_retries )
          => (call.pc = "returned" /\ call.ret = "")
    /\ (call.max_retries = 0 /\ call.pc # "entry") =>
          (call.pc = "returned" /\ call.ret = "" /\ call.requests = 0)

C3_Witness ==
    /\ call.pc = "returned"
    /\ call.max_retries = 3
    /\ call.requests = 3
    /\ \A i \in 1..Len(trace) : IsRequestAt(i) => IsRetryableAt(i)
    /\ call.ret = ""

\* C4: sleeps sit exactly between consecutive attempts.  Every sleep directly
\* follows a retryable failure; once it is over the next event is a request; no
\* sleep follows a success, a 4xx or the last attempt; a finished call that
\* made k >= 1 requests took k - 1 sleeps (and none when it made no request).
\* For 503, 503, 200 with max_retries = 3 the third body is returned after
\* exactly two sleeps.
C4_SleepBetweenAttempts ==
    /\ call.sleeps = SleepsTaken
    /\ \A i \in 1..Len(trace) :
          IsSleepAt(i) =>
              /\ i > 1 /\ IsRetryableAt(i - 1)
              /\ IF i < Len(trace) THEN IsRequestAt(i + 1)
                 ELSE call.pc \in {"sleeping", "request"}
    /\ \A i \in 1..Len(trace) :
          (IsRequestAt(i) /\ i < Len(trace)) => IsSleepAt(i + 1)
    /\ call.pc = "sleeping" => (Len(trace) > 0 /\ IsSleepAt(Len(trace)))
    /\ call.pc = "returned" =>
          call.sleeps = (IF call.requests = 0 THEN 0 ELSE call.requests - 1)
    /\ ( /\ call.max_retries = 3
         /\ Len(trace) = 5
         /\ trace[1].status = 503 /\ trace[3].status = 503
         /\ IsSuccessAt(5) )
          => (call.pc = "returned" /\ call.ret = trace[5].text /\ call.sleeps = 2)

C4_Witness ==
    /\ call.pc = "returned"
    /\ call.max_retries = 3
    /\ Len(trace) = 5
    /\ trace[1].status = 503 /\ IsSleepAt(2)
    /\ trace[3].status = 503 /\ IsSleepAt(4)
    /\ trace[5].status = 200 /\ trace[5].text = "<html>"
    /\ call.ret = "<html>"
    /\ call.sleeps = 2

\* C5: fetch_html never raises: whatever the url and the responses, the call is
\* never left by an exception, and what it returns is the text of its last,
\* successful, response or the empty string.
C5_NeverRaises ==
    /\ call.pc # "raised"
    /\ call.pc = "returned" =>
          \/ call.ret = ""
          \/ /\ Len(trace) > 0
             /\ IsSuccessAt(Len(trace))
             /\ call.ret = trace[Len(trace)].text

C5_Witness ==
    /\ call.pc = "returned"
    /\ Len(trace) = 5
    /\ trace[1].exc = "ConnectionError"
    /\ trace[3].exc = "Timeout"
    /\ trace[5].status = 500
    /\ call.ret = ""

(***************************************************************************)
(* Properties of scrape_generic_table, checked under SpecExtract.          *)
(***************************************************************************)
\* The containers of the page that the configured container selector matches.
MatchedTables == Select(ex.soup, ex.config.table_container_selector)

ExFinished == ex.pc \in {"returned", "raised"}

\* The call got past the container test with a non-negative wrapper_index.
ExTableChosen ==
    /\ ExFinished
    /\ WrapperIndex(ex.config) >= 0
    /\ WrapperIndex(ex.config) < Len(MatchedTables)

\* The rows of the container at wrapper_index that row_selector matches.
ChosenRows ==
    Select(MatchedTables[WrapperIndex(ex.config) + 1].rows, ex.config.row_selector)

ExFields == ex.config.field_selectors

\* No match of the field's selector in the row.
FieldMisses(row, field) == row.cells[field.selector] = <<>>

\* C9: with a non-negative wrapper_index, the call returns the empty sequence
\* without raising when the container selector matches nothing or wrapper_index
\* is at least the number of matched containers, and otherwise returns the
\* records of the rows of exactly the container at wrapper_index.
C9_MissingContainerGivesEmpty ==
    (ExFinished /\ WrapperIndex(ex.config) >= 0) =>
        /\ ex.pc = "returned"
        /\ IF Len(MatchedTables) = 0 \/ WrapperIndex(ex.config) >= Len(MatchedTables)
           THEN ex.value = <<>>
           ELSE ex.value = RowRecords(MatchedTables[WrapperIndex(ex.config) + 1],
                                      ex.config)

C9_Witness ==
    /\ ex.pc = "returned"
    /\ Len(MatchedTables) = 2
    /\ MatchedTables[1].rows # <<>>
    /\ ex.config.wrapper_index = <<2>>
    /\ ex.value = <<>>

\* C10 as stated: one record per matched row, in document order; every field
\* whose selector matches nothing in the row is None in the row's record; every
\* record has the lower-cased field names as its keys.
C10_AsStated ==
    ExTableChosen =>
        /\ ex.pc = "returned"
        /\ Len(ex.value) = Len(ChosenRows)
        /\ \A i \in 1..Len(ex.value) :
              /\ DOMAIN ex.value[i] = {Lower(ExFields[j].name) : j \in 1..Len(ExFields)}
              /\ \A j \in 1..Len(ExFields) :
                    FieldMisses(ChosenRows[i], ExFields[j]) =>
                        ex.value[i][Lower(ExFields[j].name)].isNone

\* The field is the last one of field_selectors with its lower-cased name.
LastOfItsKey(j) ==
    \A k \in (j + 1)..Len(ExFields) : Lower(ExFields[k].name) # Lower(ExFields[j].name)

\* C10 amended: one record per matched row, in document order, emitted also
\* when all its fields are None; every record has the lower-cased field names
\* as its keys; a field whose selector matches nothing in the row is None in
\* the row's record unless a later field of field_selectors has the same
\* lower-cased name, in which case the last such field decides the value.
C10_OneRecordPerRow ==
    ExTableChosen =>
        /\ ex.pc = "returned"
        /\ Len(ex.value) = Len(ChosenRows)
        /\ \A i \in 1..Len(ex.value) :
              /\ DOMAIN ex.value[i] = {Lower(ExFields[j].name) : j \in 1..Len(ExFields)}
              /\ \A j \in 1..Len(ExFields) :
                    LastOfItsKey(j) =>
                        /\ FieldMisses(ChosenRows[i], ExFields[j]) =>
                              ex.value[i][Lower(ExFields[j].name)].isNone
                        /\ ex.value[i][Lower(ExFields[j].name)]
                              = FieldValue(ChosenRows[i], ExFields[j])

C10_Witness ==
    /\ ex.pc = "returned"
    /\ ex.config.field_selectors = FieldsMixedCase
    /\ Len(ex.value) = 2
    /\ DOMAIN ex.value[1] = {"name", "email", "image_url"}
    /\ ~ex.value[1]["name"].isNone /\ ex.value[1]["email"].isNone
    /\ \A k \in DOMAIN ex.value[2] : ex.value[2][k].isNone

(***************************************************************************)
(* Properties of a whole run, checked under Spec.                          *)
(***************************************************************************)
ScrapeAllOver == orch.pc \in {"returned", "saved"}

\* The schools that scrape_all logged as completed, in the order of the log.
Completed == SelectSeq(log, LAMBDA m : m.msg = "completed")

\* The schools whose failure scrape_all logged.
Failed == SelectSeq(log, LAMBDA m : m.msg = "Error scraping")

ReturnedNormally(s) == task[s].state = "finished" /\ task[s].exc = NoExc

Raised(s) == task[s].state = "finished" /\ task[s].exc # NoExc

\* C1: scrape_all never lets a site's exception out, and once it has returned
\* every site was run, the result of every site whose parse_site returned
\* normally stands in self.results (once, as the entry appended when the site
\* was logged as completed), and nothing else does, whichever sites raised.
C1_FailureIsolation ==
    /\ orch.pc # "raised"
    /\ Len(results) = Len(Completed)
    /\ \A i \in 1..Len(Completed) :
          /\ ReturnedNormally(Completed[i].school)
          /\ results[i] = task[Completed[i].school].value
    /\ ScrapeAllOver =>
          \A s \in Schools :
              /\ task[s].state = "finished"
              /\ ReturnedNormally(s) =>
                    Cardinality({i \in 1..Len(Completed) : Completed[i].school = s}) = 1

C1_Witness ==
    /\ orch.pc = "returned"
    /\ \E s, r \in Schools :
          /\ task[s].exc = "KeyError"
          /\ s < r
          /\ ReturnedNormally(r)
          /\ task[r].value.rows # <<>>
          /\ \E i \in 1..Len(results) : results[i] = task[r].value

\* The site has a url, its fetch gave a page, and it defines no table block.
ZeroBlocksFetched(s) ==
    /\ task[s].state = "finished"
    /\ ~sites[s].handler
    /\ ~Falsy(sites[s].url)
    /\ ~Falsy(task[s].fetch.ret)
    /\ \A i \in 1..Len(sites[s].items) : ~EndsWithTable(sites[s].items[i].key)

\* C6: for a site with a url, a successful fetch and no table block, parse_site
\* returns an empty table and does not raise.
C6_ZeroBlocksGiveEmptyTable ==
    \A s \in Schools :
        ZeroBlocksFetched(s) => (task[s].exc = NoExc /\ task[s].value.rows = <<>>)

\* No site of the run produced a record.
NoRecords == \A s \in Schools : Raised(s) \/ task[s].value.rows = <<>>

\* C7: when no site produced a record, save_csv writes no file and only logs
\* that there is nothing to save.
C7_NoDataNoFile ==
    (orch.pc = "saved" /\ NoRecords) =>
        /\ ~file.written
        /\ log[Len(log)].msg = "No results to save."

InFlight == {s \in Schools : task[s].state = "running"}

\* C8: at most max_workers invocations of parse_site are in flight; every
\* invocation in flight is run by exactly one pool thread and every busy thread
\* runs an invocation in flight (a thread takes the next site only when its
\* invocation is over); parse_site is invoked at most once per site, and exactly
\* once per site by the time scrape_all returns.
C8_BoundedConcurrency ==
    /\ Cardinality(InFlight) <= max_workers
    /\ \A s \in InFlight : Cardinality({w \in DOMAIN worker : worker[w] = s}) = 1
    /\ \A w \in DOMAIN worker : worker[w] # 0 => worker[w] \in InFlight
    /\ \A s \in Schools :
          /\ task[s].starts <= 1
          /\ task[s].starts = 1 <=> task[s].state \in {"running", "finished"}
    /\ ScrapeAllOver => \A s \in Schools : task[s].starts = 1

C8_Witness ==
    /\ max_workers = 2
    /\ Len(sites) = 3
    /\ Cardinality(InFlight) = 2
    /\ \E s \in Schools : task[s].state = "queued"


(***************************************************************************)
(* Properties of parse_site's merge of the blocks, checked under Spec.     *)
(***************************************************************************)
\* The table blocks of a site, in the order of the mapping.
TableBlocks(config) == SelectSeq(config.items, LAMBDA it : EndsWithTable(it.key))

RECURSIVE Sum(_)
Sum(numbers) == IF numbers = <<>> THEN 0 ELSE Head(numbers) + Sum(Tail(numbers))

\* The records scrape_generic_table gives for each table block on the page.
BlockRecords(config, html) ==
    [b \in 1..Len(TableBlocks(config)) |->
        ScrapeGenericTable(ParseHtml(html), TableBlocks(config)[b].value).value]

BlockSizes(config, html) ==
    [b \in 1..Len(TableBlocks(config)) |-> Len(BlockRecords(config, html)[b])]

\* The rows of the blocks before block b.
RowsBefore(config, html, b) == Sum(SubSeq(BlockSizes(config, html), 1, b - 1))

\* The activation t of parse_site fetched a page and went through one or more
\* table blocks, each with a container selector.
MergedBlocks(t, config) ==
    /\ t.state = "finished"
    /\ ~config.handler
    /\ ~Falsy(t.fetch.ret)
    /\ TableBlocks(config) # <<>>
    /\ \A b \in 1..Len(TableBlocks(config)) :
          TableBlocks(config)[b].value.table_container_selector # None

\* The frame is the blocks' records in block order then row order, labelled
\* 0..n-1, every row with the school and with its own block's staff_type.
FrameOfBlocks(t, school, config) ==
    LET html == t.fetch.ret
        recs == BlockRecords(config, html)
        n == Sum(BlockSizes(config, html))
    IN  /\ t.exc = NoExc
        /\ Len(t.value.rows) = n
        /\ t.value.index = [i \in 1..n |-> i - 1]
        /\ \A b \in 1..Len(recs) : \A j \in 1..Len(recs[b]) :
              LET row == t.value.rows[RowsBefore(config, html, b) + j]
              IN  /\ row["school"] = Str(<<school>>)
                  /\ row["staff_type"] = Str(<<StaffType(TableBlocks(config)[b].key)>>)
                  /\ \A c \in DOMAIN recs[b][j] : row[c] = recs[b][j][c]

\* The rows parse_site returned for school s.
SiteRowCount(s) ==
    IF MergedBlocks(task[s], sites[s]) /\ task[s].exc = NoExc
    THEN Sum(BlockSizes(sites[s], task[s].fetch.ret)) ELSE 0

\* C11: for a site with one or more table blocks parse_site returns the blocks'
\* records concatenated in block order then row order, with the contiguous
\* labels 0..n-1 whether there is one block or several, every record carrying
\* the school and the staff_type of its own block; the rows exported are as
\* many as the rows the blocks of the collected sites matched.
C11_BlocksConcatenated ==
    /\ \A s \in Schools :
          MergedBlocks(task[s], sites[s]) => FrameOfBlocks(task[s], School(s), sites[s])
    /\ file.written =>
          Len(file.rows) = Sum([i \in 1..Len(Completed) |-> SiteRowCount(Completed[i].school)])

\* A run exported two sites of one block of three rows each and a site of two
\* blocks, whose rows are labelled 0, 1, 2 and carry two staff types.
C11_Witness ==
    /\ file.written
    /\ \E s, r, q \in Schools :
          /\ s # r
          /\ Len(TableBlocks(sites[s])) = 1 /\ SiteRowCount(s) = 3
          /\ Len(TableBlocks(sites[r])) = 1 /\ SiteRowCount(r) = 3
          /\ Len(TableBlocks(sites[q])) = 2
          /\ MergedBlocks(task[q], sites[q])
          /\ task[q].value.index = <<0, 1, 2>>
          /\ task[q].value.rows[1]["staff_type"] # task[q].value.rows[3]["staff_type"]
          /\ Len(file.rows) = 6 + 3


(***************************************************************************)
(* Properties of one call of parse_site, checked under SpecParse.          *)
(***************************************************************************)
\* C12: for a site carrying the 'handler' marker parse_site never calls
\* fetch_html, makes no request and runs no extraction (no column is set and no
\* block's error is raised): it returns the empty frame, whatever the url and
\* the table blocks of the site.
C12_HandlerSkipsSite ==
    \A s \in Schools :
        sites[s].handler =>
            /\ task[s].fetch.pc = "uncalled"
            /\ ~task[s].requested
            /\ task[s].exc = NoExc
            /\ task[s].value = EmptyFrame

\* parse_site is over for a handler site that has a url and a block which
\* would raise if it were extracted.
C12_Witness ==
    /\ task[1].state = "finished"
    /\ sites[1].handler
    /\ sites[1].url = UrlB
    /\ sites[1].items = <<StaffBlock, BrokenBlock>>

\* The site has no handler marker and its url is absent or empty.
NoUrl(s) == ~sites[s].handler /\ Falsy(sites[s].url)

\* C17: fetch_html called with an absent or empty url returns the empty string
\* at once, with no request made and no sleep taken, and parse_site of such a
\* site never suspends in a request or a sleep and returns the empty frame
\* without raising.
C17_NoUrlNoRequest ==
    \A s \in Schools :
        NoUrl(s) =>
            /\ LET fetch == FetchEntry(NewCall(sites[s].url, DefaultMaxRetries))
               IN  /\ fetch.pc = "returned"
                   /\ fetch.ret = ""
                   /\ fetch.requests = 0
                   /\ fetch.sleeps = 0
            /\ task[s].fetch.pc \in {"uncalled", "popped"}
            /\ ~task[s].requested
            /\ task[s].exc = NoExc
            /\ task[s].value = EmptyFrame
            /\ task[s].state # "new" =>
                  task[s].state = "finished" /\ task[s].fetch.ret = ""

\* parse_site is over for a site with an empty url and two blocks, one that
\* would yield rows and one that would raise, had a page been fetched.
C17_Witness ==
    /\ task[1].state = "finished"
    /\ NoUrl(1)
    /\ sites[1].url = ""
    /\ sites[1].items = <<StaffBlock, BrokenBlock>>
    /\ task[1].fetch.pc = "popped"


\* The block finds no row on the page: its container selector matches
\* nothing, its wrapper_index is past the last matched container, or its row
\* selector matches no row of the container.
StructuralMiss(item, soup) ==
    LET tables == Select(soup, item.value.table_container_selector)
        at == WrapperIndex(item.value)
    IN  \/ tables = <<>>
        \/ at >= Len(tables)
        \/ Select(tables[at + 1].rows, item.value.row_selector) = <<>>

\* The table blocks of the site that find rows on the page.
HitBlocks(config, soup) ==
    SelectSeq(TableBlocks(config), LAMBDA item : ~StructuralMiss(item, soup))

\* The records of a block that finds rows, each with its staff_type and school.
StampedRecords(school, item, soup) ==
    LET tables == Select(soup, item.value.table_container_selector)
        records == RowRecords(tables[WrapperIndex(item.value) + 1], item.value)
    IN  [j \in 1..Len(records) |->
            SetItem(SetItem(records[j], "staff_type", Str(<<StaffType(item.key)>>)),
                    "school", Str(<<school>>))]

RECURSIVE RecordsOf(_, _, _)
RecordsOf(school, items, soup) ==
    IF items = <<>> THEN <<>>
    ELSE StampedRecords(school, Head(items), soup) \o RecordsOf(school, Tail(items), soup)

\* The call went through two or more table blocks, each with a container
\* selector and a wrapper_index that is not negative, one of which at least
\* finds no row.
MissAmongBlocks(s) ==
    /\ MergedBlocks(task[s], sites[s])
    /\ Len(TableBlocks(sites[s])) >= 2
    /\ \E b \in 1..Len(TableBlocks(sites[s])) :
          StructuralMiss(TableBlocks(sites[s])[b], ParseHtml(task[s].fetch.ret))

\* C18: when a block of a site of several table blocks finds no row (no
\* container matched, wrapper_index out of range or no row matched),
\* parse_site does not raise and returns exactly the records of the other
\* blocks, in block order then row order, labelled 0..n-1, each with the
\* staff_type of its own block and the school.
C18_MissLeavesOtherBlocks ==
    \A s \in Schools :
        MissAmongBlocks(s) =>
            LET soup == ParseHtml(task[s].fetch.ret)
                expected == RecordsOf(School(s), HitBlocks(sites[s], soup), soup)
            IN  /\ task[s].exc = NoExc
                /\ Len(task[s].value.rows) = Len(expected)
                /\ task[s].value.index = [k \in 1..Len(expected) |-> k - 1]
                /\ \A k \in 1..Len(expected) : \A c \in DOMAIN expected[k] :
                      task[s].value.rows[k][c] = expected[k][c]

\* The first block asks for a container past the last one and the second
\* block's two rows are the result.
C18_Witness ==
    /\ task[1].state = "finished"
    /\ sites[1].items = <<IndexOutBlock, StaffBlock>>
    /\ MissAmongBlocks(1)
    /\ Len(task[1].value.rows) = 2
    /\ task[1].value.rows[2]["staff_type"] = Str(<<"Support_staff">>)
    /\ task[1].value.rows[2]["school"] = Str(<<"Alpha">>)


(***************************************************************************)
(* Properties of the field values, checked under SpecExtract.              *)
(***************************************************************************)
\* What is left of an href when the surrounding whitespace and a leading
\* mailto: are taken away, and nothing else.
WithoutMailtoPrefix(href) ==
    LET trimmed == Strip(href)
    IN  IF trimmed # <<>> /\ Head(trimmed) = "mailto:" THEN Strip(Tail(trimmed))
        ELSE trimmed

\* Field j is named exactly email and has no attribute, and its selector finds
\* in row an element with an href.
EmailFromHref(row, j) ==
    /\ ExFields[j].name = "email"
    /\ Falsy(AttributeName(ExFields[j]))
    /\ LastOfItsKey(j)
    /\ SelectOne(row, ExFields[j].selector) # <<>>
    /\ "href" \in DOMAIN SelectOne(row, ExFields[j].selector)[1].attrs

\* C13: for a field named exactly email and configured without an attribute,
\* whose matched element has an href, the value is the href without surrounding
\* whitespace and without its leading mailto:, and nothing else of the href is
\* removed.
C13_OnlyLeadingMailtoRemoved ==
    ExTableChosen =>
        \A i \in 1..Len(ChosenRows) : \A j \in 1..Len(ExFields) :
            EmailFromHref(ChosenRows[i], j) =>
                ex.value[i]["email"]
                    = Str(WithoutMailtoPrefix(
                              SelectOne(ChosenRows[i], ExFields[j].selector)[1].attrs["href"]))

\* Field j is a structured descriptor that names an attribute, and its selector
\* matches in row.
AttributeOfMatch(row, j) ==
    /\ ExFields[j].isDict
    /\ ~Falsy(ExFields[j].attribute)
    /\ LastOfItsKey(j)
    /\ row.cells[ExFields[j].selector] # <<>>

\* C14: for a field configured as {selector, attribute}, whenever the selector
\* matches in the row the value is the named attribute of the first matching
\* element exactly as the element carries it (None when the element lacks it),
\* never the element's text and never the href cleaned as for email.
C14_AttributeTakesPrecedence ==
    ExTableChosen =>
        \A i \in 1..Len(ChosenRows) : \A j \in 1..Len(ExFields) :
            AttributeOfMatch(ChosenRows[i], j) =>
                LET first == Head(ChosenRows[i].cells[ExFields[j].selector])
                    value == ex.value[i][Lower(ExFields[j].name)]
                IN  /\ value = IF ExFields[j].attribute \in DOMAIN first.attrs
                               THEN Str(first.attrs[ExFields[j].attribute])
                               ELSE PyNone
                    /\ value # Str(Strip(first.text))

\* A field named email with attribute href got the href as it stands, and a
\* field whose selector matches two elements got the attribute of the first.
C14_Witness ==
    /\ ex.pc = "returned"
    /\ ExTableChosen
    /\ ExFields = FieldsAttribute
    /\ ChosenRows = <<RowFull, RowPartial>>
    /\ ex.value[1]["email"] = Str(<<" ", "mailto:", "jane@doe.edu", " ">>)
    /\ ex.value[1]["link"] = PyNone
    /\ ex.value[2]["link"] = Str(<<"/staff/jd">>)


(***************************************************************************)
(* Properties of the pool under a long retry sequence, checked under       *)
(* SpecStall.                                                              *)
(***************************************************************************)
\* The loop of scrape_all has taken the future of school r.
Collected(r) == orch.pc \in {"collect", "returned", "saved"} /\ r \notin orch.pending

\* C15: with a pool of at least two threads, whenever a site is inside a retry
\* sequence every other site gets parsed and taken by the loop of scrape_all
\* while that site is still retrying (or else the site's retry sequence ends).
C15_RetryDelaysOnlyItself ==
    \A s \in 1..NumSites :
        (max_workers >= 2 /\ Retrying(s))
            ~> (~Retrying(s) \/ \A r \in Schools \ {s} : Collected(r))

\* A site sleeps after its second failed attempt while the results of the two
\* other sites of the run are already in self.results.
C15_Witness ==
    /\ max_workers = 2
    /\ Len(sites) = 3
    /\ \E s \in Schools :
          /\ Retrying(s)
          /\ task[s].fetch.pc = "sleeping"
          /\ task[s].fetch.requests = 2
          /\ \A r \in Schools \ {s} : Collected(r) /\ ReturnedNormally(r)
    /\ Len(results) = 2


(***************************************************************************)
(* Properties of the loop of scrape_all, checked under Spec.               *)
(***************************************************************************)
\* How many entries of the log (completions or failures) name school s.
TimesLogged(messages, s) == Len(SelectSeq(messages, LAMBDA m : m.school = s))

\* Once scrape_all has returned every site was either appended once (and
\* logged as completed once) or logged as failed once; self.results has one
\* entry per completion, at most one per site.
AccountedOnce ==
    /\ Len(results) = Len(Completed)
    /\ Len(results) <= Len(sites)
    /\ \A s \in Schools :
          /\ TimesLogged(Completed, s) + TimesLogged(Failed, s) <= 1
          /\ ScrapeAllOver => TimesLogged(Completed, s) + TimesLogged(Failed, s) = 1
    /\ \A i \in 1..Len(results) : results[i] = task[Completed[i].school].value

\* School s had finished when as_completed was called.
FinishedBeforeLoop(s) == task[s].order <= orch.before

\* C16 as stated: every site is accounted for exactly once, never more results
\* than sites, and the results stand in self.results in the order in which the
\* sites' tasks completed.
C16_AsStated ==
    /\ AccountedOnce
    /\ \A i, j \in 1..Len(Completed) :
          i < j => task[Completed[i].school].order < task[Completed[j].school].order

\* C16 amended: every site is accounted for exactly once, never more results
\* than sites, and the results stand in self.results in the order in which
\* as_completed yielded them: the sites whose tasks had finished before the
\* loop started come first, in no particular order among themselves, and
\* after them the others in the order in which their tasks completed.
C16_AccountedInYieldOrder ==
    /\ AccountedOnce
    /\ \A i, j \in 1..Len(Completed) :
          i < j =>
              \/ task[Completed[i].school].order < task[Completed[j].school].order
              \/ /\ FinishedBeforeLoop(Completed[i].school)
                 /\ FinishedBeforeLoop(Completed[j].school)

\* scrape_all returned with one site logged as failed and two results, which
\* stand in self.results in the order of completion and against the order of
\* submission; both tasks completed while the loop was waiting.
C16_Witness ==
    /\ orch.pc = "returned"
    /\ Len(Failed) = 1
    /\ Len(Completed) = 2
    /\ Completed[1].school > Completed[2].school
    /\ task[Completed[1].school].order < task[Completed[2].school].order
    /\ ~FinishedBeforeLoop(Completed[1].school)

\* The step appends one element at the end of self.results and leaves the
\* earlier elements as they are; it is an iteration of the loop of scrape_all,
\* on the main thread, that takes the future of a site and appends its value.
AppendByLoop ==
    /\ orch.pc = "collect"
    /\ task' = task
    /\ worker' = worker
    /\ \E s \in orch.pending :
          /\ orch'.pending = orch.pending \ {s}
          /\ results' = Append(results, task[s].value)

\* The step of a pool thread: it changes the activation of one site only and
\* leaves self.results, the log and the file alone.
WorkerStepIsolated ==
    /\ results' = results
    /\ log' = log
    /\ file' = file
    /\ \E s \in Schools : \A r \in Schools \ {s} : task'[r] = task[r]

\* The sites the loop has taken whose parse_site returned normally.
CollectedResults == {s \in Schools : Collected(s) /\ ReturnedNormally(s)}

\* C19: self.results changes only in a step of the loop of scrape_all on the
\* main thread, never in a step of a worker running parse_site, and such a
\* step appends exactly one element at the end and keeps the earlier ones; a
\* worker's step touches the activation of its own site only; in every
\* interleaving self.results holds exactly one entry per collected site that
\* returned normally, so that no append is lost or duplicated.
C19_ResultsAppendedByMainThreadOnly ==
    /\ [](Len(results) = Cardinality(CollectedResults))
    /\ [][ /\ results' # results => AppendByLoop
           /\ task' # task => WorkerStepIsolated ]_vars

\* Two results are in self.results while a pool thread is still inside
\* parse_site of a third site.
C19_Witness ==
    /\ Len(results) = 2
    /\ \E s \in Schools : task[s].state = "running" /\ task[s].fetch.pc = "sleeping"


(***************************************************************************)
(* Termination, checked under SpecLive.                                    *)
(***************************************************************************)
\* C20: every fetch_html call of a run makes at most max_retries attempts,
\* scrape_all never lets an exception out, and every run reaches the end of
\* scrape_all and of save_csv with every site's task finished, whatever the
\* sites, the pool width and the outcomes of the requests and of the parsing.
C20_RunCompletes ==
    /\ [](\A s \in Schools : task[s].fetch.requests <= DefaultMaxRetries)
    /\ [](orch.pc # "raised")
    /\ <>(orch.pc = "saved" /\ \A s \in Schools : task[s].state = "finished")

\* A run is over in which one site raised in the parser, one came back empty
\* after requests that failed and one gave rows.
C20_Witness ==
    /\ orch.pc = "saved"
    /\ \E s, r, q \in Schools :
          /\ Raised(s) /\ task[s].exc = "KeyError"
          /\ ReturnedNormally(r) /\ task[r].requested /\ task[r].value = EmptyFrame
          /\ ReturnedNormally(q) /\ task[q].value.rows # <<>>

====
